---- MODULE Spec2Model ----
(***************************************************************************)
(* Model of the metrics library: Gauge / Counter metrics, the              *)
(* ThreadSafeQueue, the MetricsWriter with its background thread, and the  *)
(* MetricsCollector (src/src/metrics_library.cpp,                          *)
(* src/include/metrics_library.h).                                         *)
(*                                                                         *)
(* Every critical section that the code runs under one std::mutex is one   *)
(* atomic action.  The collector mutex is held over several critical       *)
(* sections of other mutexes, so its holder is a variable.                 *)
(***************************************************************************)
EXTENDS Integers, Sequences, FiniteSets, TLC

(* ------------------------------ bounds --------------------------------- *)
\* longest list of registered metrics
MaxMetrics == 2
\* number of collectAndWrite() calls issued in a run
MaxCollects == 2
\* number of increment()/update() calls issued by driver threads in a run
MaxOps == 2
\* number of calls a client makes on a ThreadSafeQueue or on the metrics when
\* these are exercised on their own (QueueSpec, MetricSpec)
MaxCalls == 4
\* calls the threads of the lock-level host program make
MaxLockCalls == 3

(* ------------------------- the metric objects -------------------------- *)
\* Metric objects the host program creates (std::make_shared<Gauge/Counter>).
Pool == {"g1", "c1"}

Kind(o) == IF o = "g1" THEN "Gauge" ELSE "Counter"

\* Gauge::getName / Counter::getName
getName(o) == IF o = "g1" THEN "g" ELSE "c"

\* threads that call MetricsCollector::collectAndWrite
Collectors == {"t1", "t2"}

\* arguments the drivers pass to Counter::increment 
Deltas == {7}

\* arguments the drivers pass to Gauge::update, in thousandths: 123.456
GaugeInputs == {123456}

\* millisecond part of the wall clock read by the writer thread
ClockMs == {7}

\* largest and smallest value of `int value_`
IntMax == 2147483647
IntMin == -IntMax - 1

\* Counter::increment(int value = 1)
DefaultDelta == 1

\* arguments a client passes to Counter::increment when the metrics are
\* exercised on their own
WideDeltas == {DefaultDelta, -3, IntMax}

\* arguments a client passes to Gauge::update when the metrics are exercised
\* on their own, in thousandths: 42.57, 123.456, -0.004
WideGaugeInputs == {42570, 123456, -4}

\* snapshots a client pushes when the queue is exercised on its own
QueueInputs == {<<>>, << <<"c", "7">> >>}

\* the threads of a host program: one driver per metric (named after it), a
\* thread registering metrics, the collecting threads, the writer thread and
\* the thread that owns the collector
LockThreads == Pool \cup {"adder"} \cup Collectors \cup {"writer", "owner"}

(* --------------------------- text rendering ---------------------------- *)
Digit(d) ==
  CASE d = 0 -> "0" [] d = 1 -> "1" [] d = 2 -> "2" [] d = 3 -> "3"
    [] d = 4 -> "4" [] d = 5 -> "5" [] d = 6 -> "6" [] d = 7 -> "7"
    [] d = 8 -> "8" [] d = 9 -> "9"

RECURSIVE NatToString(_)
NatToString(n) ==
  IF n < 10 THEN Digit(n) ELSE NatToString(n \div 10) \o Digit(n % 10)

\* digits of |n| for n < 0, computed from |n| - 1 so that |INT_MIN| is never
\* formed
MagnitudeToString(n) ==
  LET a == -(n + 1)
  IN  IF a < 9 THEN Digit(a + 1)
      ELSE NatToString((a \div 10) + (IF (a % 10) = 9 THEN 1 ELSE 0))
             \o Digit(((a % 10) + 1) % 10)

\* std::to_string(int)
IntToString(n) ==
  IF n < 0 THEN "-" \o MagnitudeToString(n) ELSE NatToString(n)

Abs(n) == IF n < 0 THEN -n ELSE n

\* ss << std::fixed << std::setprecision(2) << value_, for a value given in
\* thousandths: rounded to the nearest hundredth, sign kept even when the
\* rounded magnitude is zero ("-0.00").
FixedTwo(v) ==
  LET h == (Abs(v) + 5) \div 10
  IN  (IF v < 0 THEN "-" ELSE "") \o NatToString(h \div 100) \o "."
        \o Digit((h \div 10) % 10) \o Digit(h % 10)

\* Metric::getValueAsString, by dynamic type
getValueAsString(o, v) ==
  IF Kind(o) = "Gauge" THEN FixedTwo(v) ELSE IntToString(v)

\* ss << '.' << std::setfill('0') << std::setw(3) << ms.count()
TimeStamp(ms) ==
  "2025-07-01 12:00:00." \o (IF ms < 100 THEN "0" ELSE "")
     \o (IF ms < 10 THEN "0" ELSE "") \o NatToString(ms)

RECURSIVE Pairs(_)
\* for (const auto &[name, value] : metrics) file << " \"" << name << "\" " << value;
Pairs(m) ==
  IF m = <<>> THEN ""
  ELSE " \"" \o Head(m)[1] \o "\" " \o Head(m)[2] \o Pairs(Tail(m))

\* the line the writer thread appends for one snapshot
Line(ms, m) == TimeStamp(ms) \o Pairs(m) \o "\n"

(* -------------------------- metric primitives -------------------------- *)
\* value_ += value leaves the range of int: undefined behaviour
Overflows(v, d) ==
  \/ d > 0 /\ v > IntMax - d
  \/ d < 0 /\ v < IntMin - d

\* v + d in 32-bit two's complement
WrapAdd(v, d) ==
  IF d > 0 /\ v > IntMax - d THEN (v - IntMax - 1) + (d - IntMax - 1)
  ELSE IF d < 0 /\ v < IntMin - d THEN (v + IntMax + 1) + (d + IntMax + 1)
  ELSE v + d

\* what value_ += value can do: the sum; on signed overflow the build either
\* wraps around or traps
IncrementOutcomes(v, d) == IF Overflows(v, d) THEN {"wrap", "trap"} ELSE {"sum"}

\* a Gauge that accumulates
GaugeStore_Add(old, v) == old + v

\* value_ = value in Gauge::update
GaugeStore(old, v) == v

(* ---------------------- ThreadSafeQueue primitives --------------------- *)
\* a push that puts the element at the head (LIFO)
QueuePush_AtHead(q, e) == <<e>> \o q

\* queue_.push(data)
QueuePush(q, e) == Append(q, e)

\* a pop that forgets to remove the head
QueuePop_KeepHead(q) == q

\* queue_.pop() after reading queue_.front()
QueuePop(q) == Tail(q)

\* a front() that hands out the newest element
QueueFront_Back(q) == q[Len(q)]

\* queue_.front()
QueueFront(q) == Head(q)

\* predicate of cond_var_.wait in waitAndPop
WaitPredicate(q, s) == q # <<>> \/ s

\* an early return that looks at the stop flag only
WaitReturnsAbsent_StopOnly(q, s) == s

\* the early return of waitAndPop
WaitReturnsAbsent(q, s) == q = <<>> /\ s

\* a stop that flips the flag
StopFlag_Toggle(s) == ~s

\* stopped_ = true
StopFlag(s) == TRUE

\* a push that notifies nobody
NotifyOne_None(sleeping, n) == n

\* cond_var_.notify_one(): a consumer blocked in wait is woken
NotifyOne(sleeping, n) == n \/ sleeping

\* cond_var_.notify_all()
NotifyAll(sleeping, n) == n \/ sleeping

(* ------------------------ collector primitives ------------------------- *)
\* a registration that refuses an object already in the list
ListAdd_Unique(m, o) ==
  IF \E i \in 1..Len(m) : m[i] = o THEN m ELSE Append(m, o)

\* metrics_.push_back(metric)
ListAdd(m, o) == Append(m, o)

\* a flush into a file opened without std::ios::app
SinkAppend_Truncate(lines, buffer) == buffer

\* file.flush() on a stream opened with std::ios::app
SinkAppend(lines, buffer) == lines \o buffer

(* ------------------------------- state --------------------------------- *)
VARIABLES
  sinkOpenable,  \* environment: can the file named filename_ be opened
  ownerPc,       \* the thread that constructs and destroys the collector
  value,         \* value_ of every metric object
  metrics_,      \* MetricsCollector::metrics_
  cmutex,        \* holder of MetricsCollector::mutex_
  cpc,           \* position of each collecting thread in collectAndWrite
  ci,            \* index of the range-for in collectAndWrite
  snapshot,      \* local `snapshot` of collectAndWrite
  queue_,        \* ThreadSafeQueue::queue_
  stopped_,      \* ThreadSafeQueue::stopped_
  running_,      \* MetricsWriter::running_
  wpc,           \* position of the writer thread in MetricsWriter::run
  metrics,       \* local `metrics` of MetricsWriter::run
  file,          \* lines in the ofstream buffer, not yet flushed
  sink,          \* lines in the file
  ncollect,      \* collectAndWrite() calls issued so far
  nadd,          \* addMetric() calls that have returned
  nops,          \* increment()/update() calls issued so far
  \* history variables
  pushed,        \* every element pushed, in the order push took the queue lock
  popped,        \* every element returned by tryPop / waitAndPop, in order
  applied,       \* per metric: sum of the deltas passed to increment
  reported,      \* per metric: sum of the values read into snapshots
  pre,           \* per collecting thread: value of every metric at call start
  startList,     \* per collecting thread: metrics_ at call start
  quiet,         \* per collecting thread: no other mutator acted during the call
  instants,      \* per collecting thread: metric states seen during the pass
  capture,       \* per collecting thread: rank of the call in progress in the
                 \* order in which the calls took the collector lock (0: none)
  order,         \* for every push, in push order: rank of its call
  \* the threads of a host program with every mutex taken and released in a
  \* step of its own
  lpc,           \* position of each thread
  mmutex,        \* per metric: holder of Gauge::mutex_ / Counter::mutex_
  qmutex,        \* holder of ThreadSafeQueue::mutex_
  \* a client exercising the queue or the metrics on their own
  qpc,           \* position of the consuming thread in waitAndPop
  notified,      \* a notify has reached the consumer blocked in cond_var_.wait
  ncalls,        \* calls made so far
  last,          \* the last call that returned: operation, object, result,
                 \* and the operation and object of the call before it
  hist           \* per metric: arguments of increment / update since
                 \* construction or the last reset

vars == <<sinkOpenable, ownerPc, value, metrics_, cmutex, cpc, ci, snapshot,
          queue_, stopped_, running_, wpc, metrics, file, sink, ncollect,
          nops, pushed, popped, applied, reported, pre, startList, quiet,
          instants, nadd, qpc, notified, ncalls, last, hist, capture, order,
          lpc, mmutex, qmutex>>

collectorVars == <<metrics_, nadd, cmutex, cpc, ci, snapshot, ncollect>>
metricVars == <<value, nops, applied>>
writerVars == <<wpc, metrics, file, sink>>
queueVars == <<queue_, pushed, popped>>
histVars == <<reported, pre, startList, quiet, instants>>
lockVars == <<lpc, mmutex, qmutex>>
clientVars == <<qpc, notified, ncalls, last, hist, lockVars>>
orderVars == <<capture, order>>

\* std::terminate has been called: the process is gone
Aborted == wpc = "aborted"

ZeroValues == [o \in Pool |-> 0]

\* a default-constructed `metrics` vector; id is the position of an element
\* in the order of pushes (0: none), data is the vector of pairs
NoSnapshot == [id |-> 0, data |-> <<>>]

\* no call has returned yet
NoCall == [op |-> "none", of |-> "", res |-> "", prevOp |-> "none", prevOf |-> ""]

Init ==
  /\ sinkOpenable \in BOOLEAN
  /\ ownerPc = "new"
  /\ value = ZeroValues
  /\ metrics_ = <<>>
  /\ cmutex = "free"
  /\ cpc = [t \in Collectors |-> "idle"]
  /\ ci = [t \in Collectors |-> 0]
  /\ snapshot = [t \in Collectors |-> <<>>]
  /\ queue_ = <<>>
  /\ stopped_ = FALSE
  /\ running_ = FALSE
  /\ wpc = "none"
  /\ metrics = NoSnapshot
  /\ file = <<>>
  /\ sink = <<>>
  /\ ncollect = 0
  /\ nops = 0
  /\ pushed = <<>>
  /\ popped = <<>>
  /\ applied = ZeroValues
  /\ reported = ZeroValues
  /\ pre = [t \in Collectors |-> ZeroValues]
  /\ startList = [t \in Collectors |-> <<>>]
  /\ quiet = [t \in Collectors |-> TRUE]
  /\ instants = [t \in Collectors |-> {}]
  /\ nadd = 0
  /\ qpc = "idle"
  /\ notified = FALSE
  /\ ncalls = 0
  /\ last = NoCall
  /\ hist = [o \in Pool |-> <<>>]
  /\ capture = [t \in Collectors |-> 0]
  /\ order = <<>>
  /\ lpc = [th \in LockThreads |->
             IF th = "writer" THEN "none" ELSE IF th = "owner" THEN "new"
             ELSE "idle"]
  /\ mmutex = [o \in Pool |-> "free"]
  /\ qmutex = "free"

(* ------------------------- metrics (drivers) --------------------------- *)
\* effect of a mutation by `actor` on the history of the collections in
\* progress
Disturb(actor) ==
  /\ quiet' = [t \in Collectors |->
                 IF t # actor /\ cpc[t] # "idle" THEN FALSE ELSE quiet[t]]
  /\ instants' = [t \in Collectors |->
                 IF cpc[t] \in {"loop", "reset"}
                 THEN instants[t] \cup {value'} ELSE instants[t]]

\* Counter::increment.  The drivers run while the collector exists
\* (src/src/main.cpp joins them before the collector goes out of scope).
increment(o, d) ==
  /\ ~Aborted
  /\ ownerPc = "alive"
  /\ Kind(o) = "Counter"
  /\ nops < MaxOps
  /\ \E r \in IncrementOutcomes(value[o], d) :
       IF r = "trap"
       THEN /\ wpc' = "aborted"
            /\ UNCHANGED <<value, applied, nops, quiet, instants>>
       ELSE /\ value' = [value EXCEPT ![o] = WrapAdd(@, d)]
            /\ applied' = [applied EXCEPT ![o] = @ + d]
            /\ nops' = nops + 1
            /\ Disturb("driver")
            /\ wpc' = wpc
  /\ UNCHANGED <<sinkOpenable, clientVars, orderVars, ownerPc, collectorVars, queueVars,
                 stopped_, running_, metrics, file, sink, reported, pre,
                 startList>>

\* Gauge::update
update(o, v) ==
  /\ ~Aborted
  /\ ownerPc = "alive"
  /\ Kind(o) = "Gauge"
  /\ nops < MaxOps
  /\ value' = [value EXCEPT ![o] = GaugeStore(@, v)]
  /\ nops' = nops + 1
  /\ Disturb("driver")
  /\ UNCHANGED <<sinkOpenable, clientVars, orderVars, ownerPc, collectorVars, queueVars, stopped_,
                 running_, writerVars, applied, reported, pre, startList>>

(* --------------------------- MetricsCollector -------------------------- *)
\* MetricsCollector::MetricsCollector -> MetricsWriter::MetricsWriter:
\* running_(true), start the thread; the file is not touched here
Construct ==
  /\ ownerPc = "new"
  /\ ownerPc' = "alive"
  /\ running_' = TRUE
  /\ wpc' = "open"
  /\ UNCHANGED <<sinkOpenable, clientVars, orderVars, metricVars, collectorVars, queueVars, stopped_,
                 metrics, file, sink, histVars>>

\* MetricsCollector::addMetric
addMetric(o) ==
  /\ ~Aborted
  /\ ownerPc = "alive"
  /\ cmutex = "free"
  /\ Len(metrics_) < MaxMetrics
  /\ metrics_' = ListAdd(metrics_, o)
  /\ nadd' = nadd + 1
  /\ quiet' = [t \in Collectors |-> IF cpc[t] # "idle" THEN FALSE ELSE quiet[t]]
  /\ UNCHANGED <<sinkOpenable, clientVars, orderVars, ownerPc, metricVars, cmutex, cpc, ci, snapshot,
                 ncollect, queueVars, stopped_, running_, writerVars,
                 reported, pre, startList, instants>>

\* position after the range-for has dealt with element i-1 of list m: the
\* next element, or past the lock_guard scope
AfterElement(i, m) == IF i <= Len(m) THEN "loop" ELSE "push"

\* holder of mutex_ when thread t moves to position p
HolderAt(t, p) == IF p = "push" THEN "free" ELSE t

\* collectAndWrite: declare `snapshot`, take mutex_, begin the range-for
CollectLock(t) ==
  /\ ~Aborted
  /\ ownerPc = "alive"
  /\ cpc[t] = "idle"
  /\ cmutex = "free"
  /\ ncollect < MaxCollects
  /\ cmutex' = HolderAt(t, AfterElement(1, metrics_))
  /\ cpc' = [cpc EXCEPT ![t] = AfterElement(1, metrics_)]
  /\ ci' = [ci EXCEPT ![t] = 1]
  /\ snapshot' = [snapshot EXCEPT ![t] = <<>>]
  /\ ncollect' = ncollect + 1
  /\ pre' = [pre EXCEPT ![t] = value]
  /\ startList' = [startList EXCEPT ![t] = metrics_]
  /\ quiet' = [quiet EXCEPT ![t] = TRUE]
  /\ instants' = [instants EXCEPT ![t] = {value}]
  /\ capture' = [capture EXCEPT ![t] = ncollect + 1]
  /\ UNCHANGED <<sinkOpenable, clientVars, order, ownerPc, metricVars, metrics_, nadd, queueVars,
                 stopped_, running_, writerVars, reported>>

\* snapshot.emplace_back(metric->getName(), metric->getValueAsString())
CollectRead(t) ==
  /\ ~Aborted
  /\ cpc[t] = "loop"
  /\ ci[t] <= Len(metrics_)
  /\ LET o == metrics_[ci[t]] IN
       /\ snapshot' = [snapshot EXCEPT
                         ![t] = Append(@, <<getName(o), getValueAsString(o, value[o])>>)]
       /\ reported' = [reported EXCEPT ![o] = @ + value[o]]
  /\ cpc' = [cpc EXCEPT ![t] = "reset"]
  /\ UNCHANGED <<sinkOpenable, clientVars, orderVars, ownerPc, metricVars, metrics_, nadd, cmutex, ci,
                 ncollect, queueVars, stopped_, running_, writerVars, pre,
                 startList, quiet, instants>>

\* a reset that leaves the value in place
ResetValue_Keep(o, v) == v

\* a reset that only Counter implements
ResetValue_CounterOnly(o, v) == IF Kind(o) = "Gauge" THEN v ELSE 0

\* value of a metric after Gauge::reset / Counter::reset
ResetValue(o, v) == 0

\* metric->reset(), then the next element of the range-for or the end of
\* the lock_guard scope
CollectReset(t) ==
  /\ ~Aborted
  /\ cpc[t] = "reset"
  /\ LET o == metrics_[ci[t]] IN
       value' = [value EXCEPT ![o] = ResetValue(o, @)]
  /\ ci' = [ci EXCEPT ![t] = @ + 1]
  /\ cpc' = [cpc EXCEPT ![t] = AfterElement(ci[t] + 1, metrics_)]
  /\ cmutex' = HolderAt(t, AfterElement(ci[t] + 1, metrics_))
  /\ Disturb(t)
  /\ UNCHANGED <<sinkOpenable, clientVars, orderVars, ownerPc, nops, applied, metrics_, nadd,
                 snapshot, ncollect, queueVars, stopped_, running_, writerVars,
                 reported, pre, startList>>

\* writer_.write(snapshot) -> queue_.push(metrics), and return: the locals
\* of the call are gone
CollectWrite(t) ==
  /\ ~Aborted
  /\ cpc[t] = "push"
  /\ LET e == [id |-> Len(pushed) + 1, data |-> snapshot[t]] IN
       /\ queue_' = QueuePush(queue_, e)
       /\ pushed' = Append(pushed, e)
  /\ cpc' = [cpc EXCEPT ![t] = "idle"]
  /\ ci' = [ci EXCEPT ![t] = 0]
  /\ snapshot' = [snapshot EXCEPT ![t] = <<>>]
  /\ pre' = [pre EXCEPT ![t] = ZeroValues]
  /\ startList' = [startList EXCEPT ![t] = <<>>]
  /\ quiet' = [quiet EXCEPT ![t] = TRUE]
  /\ instants' = [instants EXCEPT ![t] = {}]
  /\ order' = Append(order, capture[t])
  /\ capture' = [capture EXCEPT ![t] = 0]
  /\ UNCHANGED <<sinkOpenable, clientVars, ownerPc, metricVars, metrics_, nadd, cmutex,
                 ncollect, popped, stopped_, running_, writerVars, reported>>

(* ------------------------ MetricsWriter::run --------------------------- *)
\* std::ofstream file(filename_, std::ios::app); throw when not open.  The
\* exception leaves the thread function: std::terminate.
WriterOpen ==
  /\ wpc = "open"
  /\ wpc' = IF sinkOpenable THEN "loop" ELSE "aborted"
  /\ UNCHANGED <<sinkOpenable, clientVars, orderVars, ownerPc, metricVars, collectorVars, queueVars,
                 stopped_, running_, metrics, file, sink, histVars>>

\* while (running_) { std::vector<...> metrics; ... } file.close();
WriterLoop ==
  /\ wpc = "loop"
  /\ wpc' = IF running_ THEN "wait" ELSE "done"
  /\ UNCHANGED <<sinkOpenable, clientVars, orderVars, ownerPc, metricVars, collectorVars, queueVars,
                 stopped_, running_, metrics, file, sink, histVars>>

\* queue_.waitAndPop(metrics)
waitAndPop ==
  /\ wpc = "wait"
  /\ WaitPredicate(queue_, stopped_)
  /\ IF WaitReturnsAbsent(queue_, stopped_)
     THEN UNCHANGED <<metrics, queue_, popped>>
     ELSE /\ metrics' = QueueFront(queue_)
          /\ queue_' = QueuePop(queue_)
          /\ popped' = Append(popped, QueueFront(queue_))
  /\ wpc' = "check"
  /\ UNCHANGED <<sinkOpenable, clientVars, orderVars, ownerPc, metricVars, collectorVars, pushed,
                 stopped_, running_, file, sink, histVars>>

\* result of ThreadSafeQueue::tryPop
tryPop(q) == q # <<>>

\* if (metrics.empty() && queue_.tryPop(metrics)) continue;
\* if (!metrics.empty()) -> write the line; the iteration ends otherwise,
\* and with it the life of the local `metrics`
WriterCheck ==
  /\ wpc = "check"
  /\ IF metrics.data = <<>> /\ tryPop(queue_)
     THEN /\ queue_' = QueuePop(queue_)
          /\ popped' = Append(popped, QueueFront(queue_))
          /\ metrics' = NoSnapshot
          /\ wpc' = "loop"
     ELSE /\ wpc' = IF metrics.data # <<>> THEN "write" ELSE "loop"
          /\ metrics' = IF metrics.data # <<>> THEN metrics ELSE NoSnapshot
          /\ UNCHANGED <<queue_, popped>>
  /\ UNCHANGED <<sinkOpenable, clientVars, orderVars, ownerPc, metricVars, collectorVars, pushed,
                 stopped_, running_, file, sink, histVars>>

\* file << timestamp << pairs << '\n'
WriterWrite ==
  /\ wpc = "write"
  /\ \E ms \in ClockMs :
       file' = Append(file, [id |-> metrics.id, text |-> Line(ms, metrics.data)])
  /\ wpc' = "flush"
  /\ UNCHANGED <<sinkOpenable, clientVars, orderVars, ownerPc, metricVars, collectorVars, queueVars,
                 stopped_, running_, metrics, sink, histVars>>

\* an iteration that ends without file.flush()
WriterFlush_NoFlush ==
  /\ wpc = "flush"
  /\ metrics' = NoSnapshot
  /\ wpc' = "loop"
  /\ UNCHANGED <<sinkOpenable, clientVars, orderVars, ownerPc, metricVars, collectorVars,
                 queueVars, stopped_, running_, histVars, file, sink>>

\* file.flush(); end of the iteration
WriterFlush ==
  /\ wpc = "flush"
  /\ sink' = SinkAppend(sink, file)
  /\ file' = <<>>
  /\ metrics' = NoSnapshot
  /\ wpc' = "loop"
  /\ UNCHANGED <<sinkOpenable, clientVars, orderVars, ownerPc, metricVars, collectorVars, queueVars,
                 stopped_, running_, histVars>>

(* ---------------------- MetricsWriter::~MetricsWriter ------------------ *)
\* running_ = false.  The collector is destroyed when no call on it is in
\* progress, and none is made afterwards.
DtorClearRunning ==
  /\ ~Aborted
  /\ ownerPc = "alive"
  /\ \A t \in Collectors : cpc[t] = "idle"
  /\ running_' = FALSE
  /\ ownerPc' = "dtor_stop"
  /\ UNCHANGED <<sinkOpenable, clientVars, orderVars, metricVars, collectorVars, queueVars, stopped_,
                 writerVars, histVars>>

\* ThreadSafeQueue::stop
stop ==
  /\ ~Aborted
  /\ ownerPc = "dtor_stop"
  /\ stopped_' = StopFlag(stopped_)
  /\ ownerPc' = "dtor_join"
  /\ UNCHANGED <<sinkOpenable, clientVars, orderVars, metricVars, collectorVars, queueVars, running_,
                 writerVars, histVars>>

\* writer_thread_.join()
DtorJoin ==
  /\ ownerPc = "dtor_join"
  /\ wpc = "done"
  /\ ownerPc' = "destroyed"
  /\ UNCHANGED <<sinkOpenable, clientVars, orderVars, metricVars, collectorVars, queueVars, stopped_,
                 running_, writerVars, histVars>>

WriterStep ==
  \/ WriterOpen \/ WriterLoop \/ waitAndPop \/ WriterCheck \/ WriterWrite
  \/ WriterFlush

OwnerStep == Construct \/ DtorClearRunning \/ stop \/ DtorJoin

CollectStep(t) ==
  \/ CollectLock(t) \/ CollectRead(t) \/ CollectReset(t) \/ CollectWrite(t)

Next ==
  \/ \E o \in Pool, d \in Deltas : increment(o, d)
  \/ \E o \in Pool, v \in GaugeInputs : update(o, v)
  \/ \E o \in Pool : addMetric(o)
  \/ \E t \in Collectors : CollectStep(t)
  \/ WriterStep
  \/ OwnerStep

Spec == Init /\ [][Next]_vars

\* the scheduler runs every thread that can take a step
FairSpec ==
  /\ Spec
  /\ WF_vars(WriterStep)
  /\ WF_vars(OwnerStep)
  /\ \A t \in Collectors : WF_vars(CollectStep(t))

TypeOK ==
  /\ ownerPc \in {"new", "alive", "dtor_stop", "dtor_join", "destroyed"}
  /\ wpc \in {"none", "open", "loop", "wait", "check", "write", "flush",
              "done", "aborted"}
  /\ Len(metrics_) <= MaxMetrics
  /\ cmutex \in Collectors \cup {"free"}

(* ------------------- the ThreadSafeQueue on its own -------------------- *)
\* Producers push, one consumer calls tryPop and waitAndPop, anybody calls
\* stop, in any order.  Here waitAndPop is taken apart: the test of the wait
\* predicate under the queue mutex, the sleep on cond_var_, the wake-up.
\* `metrics` is the vector the consumer passes as `data`.
mainVars == <<sinkOpenable, ownerPc, value, metrics_, nadd, cmutex, cpc, ci,
              snapshot, running_, wpc, file, sink, ncollect, nops, applied,
              reported, pre, startList, quiet, instants, capture, order,
              lpc, mmutex, qmutex>>

Returned(op, o, res) ==
  [op |-> op, of |-> o, res |-> res, prevOp |-> last.op, prevOf |-> last.of]

\* ThreadSafeQueue::push
QPush(d) ==
  /\ ncalls < MaxCalls
  /\ LET e == [id |-> Len(pushed) + 1, data |-> d] IN
       /\ queue_' = QueuePush(queue_, e)
       /\ pushed' = Append(pushed, e)
  /\ notified' = NotifyOne(qpc = "sleep", notified)
  /\ ncalls' = ncalls + 1
  /\ last' = Returned("push", "", "")
  /\ UNCHANGED <<mainVars, stopped_, popped, metrics, qpc, hist>>

\* ThreadSafeQueue::tryPop, called by the consumer
QTryPop ==
  /\ ncalls < MaxCalls
  /\ qpc = "idle"
  /\ IF tryPop(queue_)
     THEN /\ metrics' = QueueFront(queue_)
          /\ queue_' = QueuePop(queue_)
          /\ popped' = Append(popped, QueueFront(queue_))
          /\ last' = Returned("tryPop", "", "true")
     ELSE /\ last' = Returned("tryPop", "", "false")
          /\ UNCHANGED <<metrics, queue_, popped>>
  /\ ncalls' = ncalls + 1
  /\ UNCHANGED <<mainVars, stopped_, pushed, qpc, notified, hist>>

\* the consumer calls ThreadSafeQueue::waitAndPop
QWaitCall ==
  /\ ncalls < MaxCalls
  /\ qpc = "idle"
  /\ qpc' = "test"
  /\ ncalls' = ncalls + 1
  /\ UNCHANGED <<mainVars, queueVars, stopped_, metrics, notified, last, hist>>

\* under the mutex: the wait predicate holds and waitAndPop returns, or the
\* consumer releases the mutex and sleeps on cond_var_
QWaitTest ==
  /\ qpc = "test"
  /\ IF WaitPredicate(queue_, stopped_)
     THEN /\ IF WaitReturnsAbsent(queue_, stopped_)
             THEN /\ last' = Returned("waitAndPop", "", "absent")
                  /\ UNCHANGED <<metrics, queue_, popped>>
             ELSE /\ metrics' = QueueFront(queue_)
                  /\ queue_' = QueuePop(queue_)
                  /\ popped' = Append(popped, QueueFront(queue_))
                  /\ last' = Returned("waitAndPop", "", "item")
          /\ qpc' = "idle"
     ELSE /\ qpc' = "sleep"
          /\ UNCHANGED <<metrics, queue_, popped, last>>
  /\ notified' = FALSE
  /\ UNCHANGED <<mainVars, stopped_, pushed, ncalls, hist>>

\* the consumer is woken by a notify and goes for the mutex
QWake ==
  /\ qpc = "sleep"
  /\ notified
  /\ qpc' = "test"
  /\ notified' = FALSE
  /\ UNCHANGED <<mainVars, queueVars, stopped_, metrics, ncalls, last, hist>>

\* a spurious wake-up of std::condition_variable::wait
QSpuriousWake ==
  /\ qpc = "sleep"
  /\ ~notified
  /\ qpc' = "test"
  /\ UNCHANGED <<mainVars, queueVars, stopped_, metrics, notified, ncalls,
                 last, hist>>

\* ThreadSafeQueue::stop
QStop ==
  /\ ncalls < MaxCalls
  /\ stopped_' = StopFlag(stopped_)
  /\ notified' = NotifyAll(qpc = "sleep", notified)
  /\ ncalls' = ncalls + 1
  /\ last' = Returned("stop", "", "")
  /\ UNCHANGED <<mainVars, queueVars, metrics, qpc, hist>>

QueueInit == Init /\ sinkOpenable

QueueNext ==
  \/ \E d \in QueueInputs : QPush(d)
  \/ QTryPop
  \/ QWaitCall
  \/ QWaitTest
  \/ QWake
  \/ QSpuriousWake
  \/ QStop

QueueSpec == QueueInit /\ [][QueueNext]_vars

\* a consumer that can go on inside waitAndPop does; a spurious wake-up may
\* never come
QueueFairSpec == QueueSpec /\ WF_vars(QWaitTest) /\ WF_vars(QWake)

(* ----------------------- the metrics on their own ---------------------- *)
\* Clients call increment, update, reset and getValueAsString on the metric
\* objects in any order; every call is one critical section of the metric's
\* mutex.
queueSideVars == <<sinkOpenable, ownerPc, metrics_, nadd, cmutex, cpc, ci,
                   snapshot, queue_, stopped_, running_, metrics, file, sink,
                   ncollect, nops, pushed, popped, applied, reported, pre,
                   startList, quiet, instants, qpc, notified, capture, order,
                   lpc, mmutex, qmutex>>

\* Counter::increment
MIncrement(o, d) ==
  /\ ~Aborted
  /\ ncalls < MaxCalls
  /\ Kind(o) = "Counter"
  /\ \E r \in IncrementOutcomes(value[o], d) :
       IF r = "trap"
       THEN /\ wpc' = "aborted"
            /\ UNCHANGED <<value, hist, last, ncalls>>
       ELSE /\ value' = [value EXCEPT ![o] = WrapAdd(@, d)]
            /\ hist' = [hist EXCEPT ![o] = Append(@, d)]
            /\ last' = Returned("increment", o, "")
            /\ ncalls' = ncalls + 1
            /\ wpc' = wpc
  /\ UNCHANGED queueSideVars

\* Gauge::update
MUpdate(o, v) ==
  /\ ~Aborted
  /\ ncalls < MaxCalls
  /\ Kind(o) = "Gauge"
  /\ value' = [value EXCEPT ![o] = GaugeStore(@, v)]
  /\ hist' = [hist EXCEPT ![o] = Append(@, v)]
  /\ last' = Returned("update", o, "")
  /\ ncalls' = ncalls + 1
  /\ UNCHANGED <<queueSideVars, wpc>>

\* Gauge::reset / Counter::reset
MReset(o) ==
  /\ ~Aborted
  /\ ncalls < MaxCalls
  /\ value' = [value EXCEPT ![o] = ResetValue(o, @)]
  /\ hist' = [hist EXCEPT ![o] = <<>>]
  /\ last' = Returned("reset", o, "")
  /\ ncalls' = ncalls + 1
  /\ UNCHANGED <<queueSideVars, wpc>>

\* Gauge::getValueAsString / Counter::getValueAsString
MRead(o) ==
  /\ ~Aborted
  /\ ncalls < MaxCalls
  /\ last' = Returned("getValueAsString", o, getValueAsString(o, value[o]))
  /\ ncalls' = ncalls + 1
  /\ UNCHANGED <<queueSideVars, wpc, value, hist>>

MetricInit == Init /\ sinkOpenable

MetricNext ==
  \/ \E o \in Pool, d \in WideDeltas : MIncrement(o, d)
  \/ \E o \in Pool, v \in WideGaugeInputs : MUpdate(o, v)
  \/ \E o \in Pool : MReset(o)
  \/ \E o \in Pool : MRead(o)

MetricSpec == MetricInit /\ [][MetricNext]_vars

(* ------------------ the locks of a host program ------------------------ *)
\* The same operations with every lock_guard / unique_lock taken and
\* released in a step of its own: driver threads on the metrics, a thread
\* calling addMetric, threads calling collectAndWrite, the writer thread and
\* the owner running the destructor.  The sink can be opened.
lockFrame == <<sinkOpenable, ownerPc, value, cpc, wpc, file, sink, ncollect,
              nops, pushed, popped, applied, reported, pre, startList, quiet,
              instants, qpc, last, hist, capture, order>>

\* a scope that ends without releasing its mutex
Unlock_Leak(holder) == holder

\* end of a lock_guard / unique_lock scope of thread `holder`
Unlock(holder) == "free"

\* position of thread th set to p
At(th, p) == [lpc EXCEPT ![th] = p]

\* a thread starts an operation on the collector or on a metric
MayCall(th) ==
  /\ lpc[th] = "idle"
  /\ lpc["owner"] = "alive"
  /\ ncalls < MaxLockCalls

\* MetricsCollector / MetricsWriter constructors: the thread is started
LConstruct ==
  /\ lpc["owner"] = "new"
  /\ lpc' = [lpc EXCEPT !["owner"] = "alive", !["writer"] = "loop"]
  /\ running_' = TRUE
  /\ UNCHANGED <<lockFrame, mmutex, qmutex, cmutex, ci, snapshot, metrics_,
                 nadd, queue_, stopped_, metrics, notified, ncalls>>

\* a driver calls update / increment on metric o
DCall(o) ==
  /\ MayCall(o)
  /\ lpc' = At(o, "want")
  /\ ncalls' = ncalls + 1
  /\ UNCHANGED <<lockFrame, mmutex, qmutex, cmutex, ci, snapshot, metrics_,
                 nadd, queue_, stopped_, running_, metrics, notified>>

\* std::lock_guard<std::mutex> lock(mutex_) of the metric
DLock(o) ==
  /\ lpc[o] = "want"
  /\ mmutex[o] = "free"
  /\ mmutex' = [mmutex EXCEPT ![o] = o]
  /\ lpc' = At(o, "in")
  /\ UNCHANGED <<lockFrame, qmutex, cmutex, ci, snapshot, metrics_, nadd,
                 queue_, stopped_, running_, metrics, notified, ncalls>>

\* the assignment to value_ and the end of the scope
DUnlock(o) ==
  /\ lpc[o] = "in"
  /\ mmutex' = [mmutex EXCEPT ![o] = Unlock(o)]
  /\ lpc' = At(o, "idle")
  /\ UNCHANGED <<lockFrame, qmutex, cmutex, ci, snapshot, metrics_, nadd,
                 queue_, stopped_, running_, metrics, notified, ncalls>>

\* a thread calls addMetric
ACall ==
  /\ MayCall("adder")
  /\ Len(metrics_) < MaxMetrics
  /\ lpc' = At("adder", "want")
  /\ ncalls' = ncalls + 1
  /\ UNCHANGED <<lockFrame, mmutex, qmutex, cmutex, ci, snapshot, metrics_,
                 nadd, queue_, stopped_, running_, metrics, notified>>

\* std::lock_guard<std::mutex> lock(mutex_) of the collector
ALock ==
  /\ lpc["adder"] = "want"
  /\ cmutex = "free"
  /\ cmutex' = "adder"
  /\ lpc' = At("adder", "in")
  /\ UNCHANGED <<lockFrame, mmutex, qmutex, ci, snapshot, metrics_, nadd,
                 queue_, stopped_, running_, metrics, notified, ncalls>>

\* metrics_.push_back(metric) and the end of the scope
AUnlock ==
  /\ lpc["adder"] = "in"
  /\ \E o \in Pool : metrics_' = ListAdd(metrics_, o)
  /\ nadd' = nadd + 1
  /\ cmutex' = Unlock("adder")
  /\ lpc' = At("adder", "idle")
  /\ UNCHANGED <<lockFrame, mmutex, qmutex, ci, snapshot, queue_, stopped_,
                 running_, metrics, notified, ncalls>>

\* a thread calls collectAndWrite
LCall(t) ==
  /\ MayCall(t)
  /\ snapshot' = [snapshot EXCEPT ![t] = <<>>]
  /\ lpc' = At(t, "want")
  /\ ncalls' = ncalls + 1
  /\ UNCHANGED <<lockFrame, mmutex, qmutex, cmutex, ci, metrics_, nadd,
                 queue_, stopped_, running_, metrics, notified>>

\* std::lock_guard<std::mutex> lock(mutex_) of the collector; begin of the
\* range-for
LLock(t) ==
  /\ lpc[t] = "want"
  /\ cmutex = "free"
  /\ cmutex' = t
  /\ ci' = [ci EXCEPT ![t] = 1]
  /\ lpc' = At(t, "loop")
  /\ UNCHANGED <<lockFrame, mmutex, qmutex, snapshot, metrics_, nadd, queue_,
                 stopped_, running_, metrics, notified, ncalls>>

\* metric->getValueAsString(): the lock_guard of the metric
LReadLock(t) ==
  /\ lpc[t] = "loop"
  /\ ci[t] <= Len(metrics_)
  /\ mmutex[metrics_[ci[t]]] = "free"
  /\ mmutex' = [mmutex EXCEPT ![metrics_[ci[t]]] = t]
  /\ lpc' = At(t, "reading")
  /\ UNCHANGED <<lockFrame, qmutex, cmutex, ci, snapshot, metrics_, nadd,
                 queue_, stopped_, running_, metrics, notified, ncalls>>

\* its return; snapshot.emplace_back
LReadUnlock(t) ==
  /\ lpc[t] = "reading"
  /\ LET o == metrics_[ci[t]] IN
       /\ mmutex' = [mmutex EXCEPT ![o] = Unlock(t)]
       /\ snapshot' = [snapshot EXCEPT
                         ![t] = Append(@, <<getName(o), getValueAsString(o, value[o])>>)]
  /\ lpc' = At(t, "next")
  /\ UNCHANGED <<lockFrame, qmutex, cmutex, ci, metrics_, nadd, queue_,
                 stopped_, running_, metrics, notified, ncalls>>

\* metric->reset(): the lock_guard of the metric
LResetLock(t) ==
  /\ lpc[t] = "next"
  /\ mmutex[metrics_[ci[t]]] = "free"
  /\ mmutex' = [mmutex EXCEPT ![metrics_[ci[t]]] = t]
  /\ lpc' = At(t, "resetting")
  /\ UNCHANGED <<lockFrame, qmutex, cmutex, ci, snapshot, metrics_, nadd,
                 queue_, stopped_, running_, metrics, notified, ncalls>>

\* its return; the next element
LResetUnlock(t) ==
  /\ lpc[t] = "resetting"
  /\ mmutex' = [mmutex EXCEPT ![metrics_[ci[t]]] = Unlock(t)]
  /\ ci' = [ci EXCEPT ![t] = @ + 1]
  /\ lpc' = At(t, "loop")
  /\ UNCHANGED <<lockFrame, qmutex, cmutex, snapshot, metrics_, nadd, queue_,
                 stopped_, running_, metrics, notified, ncalls>>

\* end of the range-for and of the lock_guard scope of the collector
LUnlock(t) ==
  /\ lpc[t] = "loop"
  /\ ci[t] > Len(metrics_)
  /\ cmutex' = Unlock(t)
  /\ ci' = [ci EXCEPT ![t] = 0]
  /\ lpc' = At(t, "write")
  /\ UNCHANGED <<lockFrame, mmutex, qmutex, snapshot, metrics_, nadd, queue_,
                 stopped_, running_, metrics, notified, ncalls>>

\* writer_.write -> queue_.push: the lock_guard of the queue
LPushLock(t) ==
  /\ lpc[t] = "write"
  /\ qmutex = "free"
  /\ qmutex' = t
  /\ lpc' = At(t, "pushing")
  /\ UNCHANGED <<lockFrame, mmutex, cmutex, ci, snapshot, metrics_, nadd,
                 queue_, stopped_, running_, metrics, notified, ncalls>>

\* queue_.push(data); cond_var_.notify_one(); end of the scope; return
LPushUnlock(t) ==
  /\ lpc[t] = "pushing"
  /\ queue_' = QueuePush(queue_, [id |-> 1, data |-> snapshot[t]])
  /\ notified' = NotifyOne(lpc["writer"] = "sleep", notified)
  /\ qmutex' = Unlock(t)
  /\ snapshot' = [snapshot EXCEPT ![t] = <<>>]
  /\ lpc' = At(t, "idle")
  /\ UNCHANGED <<lockFrame, mmutex, cmutex, ci, metrics_, nadd, stopped_,
                 running_, metrics, ncalls>>

\* while (running_) { std::vector<...> metrics; ... }
WLoop ==
  /\ lpc["writer"] = "loop"
  /\ lpc' = At("writer", IF running_ THEN "wait" ELSE "done")
  /\ metrics' = NoSnapshot
  /\ UNCHANGED <<lockFrame, mmutex, qmutex, cmutex, ci, snapshot, metrics_,
                 nadd, queue_, stopped_, running_, notified, ncalls>>

\* waitAndPop: std::unique_lock lock(mutex_), also when cond_var_.wait
\* takes the mutex again after a wake-up
WLock ==
  /\ lpc["writer"] = "wait"
  /\ qmutex = "free"
  /\ qmutex' = "writer"
  /\ lpc' = At("writer", "test")
  /\ UNCHANGED <<lockFrame, mmutex, cmutex, ci, snapshot, metrics_, nadd,
                 queue_, stopped_, running_, metrics, notified, ncalls>>

\* the wait predicate under the mutex: return (with the head or with
\* nothing), or release the mutex and sleep
WTest ==
  /\ lpc["writer"] = "test"
  /\ IF WaitPredicate(queue_, stopped_)
     THEN /\ IF WaitReturnsAbsent(queue_, stopped_)
             THEN UNCHANGED <<metrics, queue_>>
             ELSE /\ metrics' = QueueFront(queue_)
                  /\ queue_' = QueuePop(queue_)
          /\ lpc' = At("writer", "check")
     ELSE /\ lpc' = At("writer", "sleep")
          /\ UNCHANGED <<metrics, queue_>>
  /\ qmutex' = Unlock("writer")
  /\ notified' = FALSE
  /\ UNCHANGED <<lockFrame, mmutex, cmutex, ci, snapshot, metrics_, nadd,
                 stopped_, running_, ncalls>>

\* woken by notify_one / notify_all
WWake ==
  /\ lpc["writer"] = "sleep"
  /\ notified
  /\ notified' = FALSE
  /\ lpc' = At("writer", "wait")
  /\ UNCHANGED <<lockFrame, mmutex, qmutex, cmutex, ci, snapshot, metrics_,
                 nadd, queue_, stopped_, running_, metrics, ncalls>>

\* a spurious wake-up
WSpuriousWake ==
  /\ lpc["writer"] = "sleep"
  /\ ~notified
  /\ lpc' = At("writer", "wait")
  /\ UNCHANGED <<lockFrame, mmutex, qmutex, cmutex, ci, snapshot, metrics_,
                 nadd, queue_, stopped_, running_, metrics, notified, ncalls>>

\* if (metrics.empty() && queue_.tryPop(metrics)): tryPop is called when
\* metrics is empty; the line is written otherwise
WCheck ==
  /\ lpc["writer"] = "check"
  /\ lpc' = At("writer", IF metrics.data = <<>> THEN "trywant" ELSE "io")
  /\ UNCHANGED <<lockFrame, mmutex, qmutex, cmutex, ci, snapshot, metrics_,
                 nadd, queue_, stopped_, running_, metrics, notified, ncalls>>

\* tryPop: the lock_guard of the queue
WTryLock ==
  /\ lpc["writer"] = "trywant"
  /\ qmutex = "free"
  /\ qmutex' = "writer"
  /\ lpc' = At("writer", "trying")
  /\ UNCHANGED <<lockFrame, mmutex, cmutex, ci, snapshot, metrics_, nadd,
                 queue_, stopped_, running_, metrics, notified, ncalls>>

\* tryPop returns; `continue` when it is true, and nothing to write when it
\* is false
WTry ==
  /\ lpc["writer"] = "trying"
  /\ IF tryPop(queue_)
     THEN /\ metrics' = QueueFront(queue_)
          /\ queue_' = QueuePop(queue_)
     ELSE UNCHANGED <<metrics, queue_>>
  /\ qmutex' = Unlock("writer")
  /\ lpc' = At("writer", "loop")
  /\ UNCHANGED <<lockFrame, mmutex, cmutex, ci, snapshot, metrics_, nadd,
                 stopped_, running_, notified, ncalls>>

\* the line is written and flushed: no mutex involved
WIo ==
  /\ lpc["writer"] = "io"
  /\ lpc' = At("writer", "loop")
  /\ UNCHANGED <<lockFrame, mmutex, qmutex, cmutex, ci, snapshot, metrics_,
                 nadd, queue_, stopped_, running_, metrics, notified, ncalls>>

\* ~MetricsWriter: running_ = false, with no call on the collector in
\* progress
ODtor ==
  /\ lpc["owner"] = "alive"
  /\ \A th \in LockThreads \ {"writer", "owner"} : lpc[th] = "idle"
  /\ running_' = FALSE
  /\ lpc' = At("owner", "want")
  /\ UNCHANGED <<lockFrame, mmutex, qmutex, cmutex, ci, snapshot, metrics_,
                 nadd, queue_, stopped_, metrics, notified, ncalls>>

\* queue_.stop(): the lock_guard of the queue
OStopLock ==
  /\ lpc["owner"] = "want"
  /\ qmutex = "free"
  /\ qmutex' = "owner"
  /\ lpc' = At("owner", "stopping")
  /\ UNCHANGED <<lockFrame, mmutex, cmutex, ci, snapshot, metrics_, nadd,
                 queue_, stopped_, running_, metrics, notified, ncalls>>

\* stopped_ = true; cond_var_.notify_all(); end of the scope
OStopUnlock ==
  /\ lpc["owner"] = "stopping"
  /\ stopped_' = StopFlag(stopped_)
  /\ notified' = NotifyAll(lpc["writer"] = "sleep", notified)
  /\ qmutex' = Unlock("owner")
  /\ lpc' = At("owner", "join")
  /\ UNCHANGED <<lockFrame, mmutex, cmutex, ci, snapshot, metrics_, nadd,
                 queue_, running_, metrics, ncalls>>

\* writer_thread_.join()
OJoin ==
  /\ lpc["owner"] = "join"
  /\ lpc["writer"] = "done"
  /\ lpc' = At("owner", "destroyed")
  /\ UNCHANGED <<lockFrame, mmutex, qmutex, cmutex, ci, snapshot, metrics_,
                 nadd, queue_, stopped_, running_, metrics, notified, ncalls>>

\* the steps a thread takes once it is inside a call
DriverRun(o) == DLock(o) \/ DUnlock(o)

AdderRun == ALock \/ AUnlock

CollectRun(t) ==
  \/ LLock(t) \/ LReadLock(t) \/ LReadUnlock(t) \/ LResetLock(t)
  \/ LResetUnlock(t) \/ LUnlock(t) \/ LPushLock(t) \/ LPushUnlock(t)

WriterRun ==
  \/ WLoop \/ WLock \/ WTest \/ WWake \/ WCheck \/ WTryLock \/ WTry \/ WIo

OwnerRun == OStopLock \/ OStopUnlock \/ OJoin

LockInit == Init /\ sinkOpenable

LockNext ==
  \/ LConstruct
  \/ \E o \in Pool : DCall(o) \/ DriverRun(o)
  \/ ACall
  \/ AdderRun
  \/ \E t \in Collectors : LCall(t) \/ CollectRun(t)
  \/ WriterRun
  \/ WSpuriousWake
  \/ ODtor
  \/ OwnerRun

LockSpec == LockInit /\ [][LockNext]_vars

\* the scheduler runs every thread that can take a step, and a thread that
\* finds a mutex free again and again gets it in the end (the writer thread
\* can take and release the queue mutex for ever on spurious wake-ups); a
\* call, the destructor and a spurious wake-up may or may not happen
LockFairSpec ==
  /\ LockSpec
  /\ \A o \in Pool : SF_vars(DriverRun(o))
  /\ SF_vars(AdderRun)
  /\ \A t \in Collectors : SF_vars(CollectRun(t))
  /\ SF_vars(WriterRun)
  /\ SF_vars(OwnerRun)

(* ============================== properties ============================= *)
\* ids of the snapshots whose lines are in a sequence of lines
Ids(lines) == [i \in 1..Len(lines) |-> lines[i].id]

\* 1, 2, ..., n
UpTo(n) == [i \in 1..n |-> i]

\* the text a metric shows after reset()
ZeroText(o) == IF Kind(o) = "Gauge" THEN "0.00" ELSE "0"

\* the pairs of a snapshot of list m taken when the metrics hold v
Render(m, v) ==
  [i \in 1..Len(m) |-> <<getName(m[i]), getValueAsString(m[i], v[m[i]])>>]

\* the same, but an object that occurs earlier in m shows its zero value
RenderFirst(m, v) ==
  [i \in 1..Len(m) |->
     <<getName(m[i]),
       IF \E j \in 1..(i - 1) : m[j] = m[i]
       THEN ZeroText(m[i]) ELSE getValueAsString(m[i], v[m[i]])>>]

NoRepeats(m) == \A i, j \in 1..Len(m) : m[i] = m[j] => i = j

(* C1: shutdown completeness.  When the destructor has returned, every     *)
(* snapshot passed to write() before it started has its line in the sink,  *)
(* in order, and none is left in the queue.                                *)
C1_ShutdownComplete ==
  ownerPc = "destroyed" => (Ids(sink) = UpTo(Len(pushed)) /\ queue_ = <<>>)

(* C2: queue handoff without loss or duplication.  At every moment the     *)
(* snapshots pushed are exactly those returned by a pop followed by those  *)
(* still queued, each once.                                                *)
C2_Handoff ==
  /\ popped \o queue_ = pushed
  /\ Ids(pushed) = UpTo(Len(pushed))

\* the consumer took one snapshot through waitAndPop and the next through
\* tryPop, after two pushes
C2_Witness ==
  /\ Len(popped) = 2
  /\ popped[1].data = <<>>
  /\ popped[2].data # <<>>
  /\ metrics = NoSnapshot
  /\ sink = <<>>

(* C3: FIFO to the sink.  Lines appear in the sink (and in the stream      *)
(* buffer behind it) in the order in which their pushes took the queue     *)
(* lock.                                                                   *)
C3_Fifo ==
  LET ids == Ids(sink \o file)
  IN  \A i, j \in 1..Len(ids) : i < j => ids[i] < ids[j]

C3_Witness == Len(sink) = 2 /\ Len(pushed) = 2

(* C4: no lost update.  For every Counter, outside a read-then-reset of    *)
(* that counter, the values reported in snapshots plus the current value   *)
(* equal the sum of the deltas applied.                                    *)
C4_NoLostUpdate ==
  \A o \in Pool :
    (/\ Kind(o) = "Counter"
     /\ \A t \in Collectors : ~(cpc[t] = "reset" /\ metrics_[ci[t]] = o))
    => reported[o] + value[o] = applied[o]

(* C5: waitAndPop returns only when the queue is non-empty or stopped; on  *)
(* a non-empty queue it removes and returns exactly the head; it returns   *)
(* with its output untouched only when the queue is stopped and empty.     *)
C5_WaitAndPop ==
  [][(wpc = "wait" /\ wpc' # "wait") =>
       /\ queue_ # <<>> \/ stopped_
       /\ queue_ # <<>> => (metrics' = Head(queue_) /\ queue_' = Tail(queue_))
       /\ queue_ = <<>> => (metrics' = metrics /\ queue_' = queue_)]_vars

\* waitAndPop has returned "absent" on a stopped, drained queue
C5_Witness ==
  /\ wpc = "check"
  /\ metrics = NoSnapshot
  /\ stopped_
  /\ queue_ = <<>>
  /\ Len(popped) >= 1

(* C6: one line per snapshot.  While the writer is not being shut down and *)
(* the sink is open, once the background thread has drained the queue and  *)
(* waits for more, every snapshot passed to write() has exactly one line   *)
(* in the sink, holding its pairs.                                         *)
C6_OneLinePerSnapshot ==
  (ownerPc = "alive" /\ wpc = "wait" /\ queue_ = <<>>) =>
     /\ Ids(sink) = UpTo(Len(pushed))
     /\ \A i \in 1..Len(sink) :
          \E ms \in ClockMs : sink[i].text = Line(ms, pushed[i].data)

(* C7: shutdown always terminates.  Once the destructor has set the stop   *)
(* signal, the background thread exits and the join completes.             *)
C7_ShutdownTerminates ==
  (ownerPc = "dtor_join") ~> (ownerPc = "destroyed" /\ wpc = "done")

(* C8 as stated: a collectAndWrite call with no concurrent mutator         *)
(* enqueues one snapshot with one entry per registered metric, in order,   *)
(* each carrying the value from just before the call; every registered     *)
(* metric reads zero at return; the list is unchanged.                     *)
C8_RoundTripAsStated ==
  [][\A t \in Collectors :
       (cpc[t] = "push" /\ cpc'[t] = "idle" /\ quiet[t]) =>
         LET e == [id |-> Len(pushed) + 1,
                   data |-> Render(startList[t], pre[t])]
         IN  /\ pushed' = Append(pushed, e)
             /\ queue_' = Append(queue_, e)
             /\ \A i \in 1..Len(startList[t]) :
                  getValueAsString(startList[t][i], value'[startList[t][i]])
                    = ZeroText(startList[t][i])
             /\ metrics_' = startList[t]]_vars

(* C8 amended: as above, except that an entry for a metric object that     *)
(* already occurs earlier in the list carries the zero value.              *)
C8_RoundTrip ==
  [][\A t \in Collectors :
       (cpc[t] = "push" /\ cpc'[t] = "idle" /\ quiet[t]) =>
         LET e == [id |-> Len(pushed) + 1,
                   data |-> RenderFirst(startList[t], pre[t])]
         IN  /\ pushed' = Append(pushed, e)
             /\ queue_' = Append(queue_, e)
             /\ \A i \in 1..Len(startList[t]) :
                  getValueAsString(startList[t][i], value'[startList[t][i]])
                    = ZeroText(startList[t][i])
             /\ metrics_' = startList[t]]_vars

\* g.update(123.456); c.increment(7); collectAndWrite() has returned
C8_Witness ==
  /\ nops = 2
  /\ \A t \in Collectors : cpc[t] = "idle"
  /\ Len(pushed) = 1
  /\ pushed[1].data = << <<"g", "123.46">>, <<"c", "7">> >>
  /\ value = ZeroValues

(* C9: single-instant capture.  A completed snapshot of a list of distinct *)
(* metrics equals the values the metrics held together at one instant of   *)
(* the collection pass.                                                    *)
C9_SingleInstant ==
  \A t \in Collectors :
    (cpc[t] = "push" /\ NoRepeats(startList[t])) =>
       \E v \in instants[t] : snapshot[t] = Render(startList[t], v)

(* C10: sink open failure is surfaced to the constructing caller.  When    *)
(* the sink cannot be opened, construction fails, no line is written, and  *)
(* no writer thread runs or dies of an uncaught failure.                   *)
C10_OpenFailureSurfaced ==
  ~sinkOpenable =>
     /\ ownerPc \in {"new", "ctor_failed"}
     /\ wpc = "none"
     /\ sink = <<>>

IsPrefix(a, b) == Len(a) <= Len(b) /\ SubSeq(b, 1, Len(a)) = a

\* a call of the given operation is made and returns in this step (a
\* waitAndPop call takes several steps: it returns when qpc goes from "test"
\* to "idle")
Returns(op) == ncalls' = ncalls + 1 /\ last'.op = op /\ qpc' = qpc

(* C11: stop() sets the stopped flag and leaves the queue contents and     *)
(* their order unchanged; a second stop() changes nothing; the flag never  *)
(* becomes false again; on a stopped queue tryPop and waitAndPop still     *)
(* remove the queued snapshots, head first, until the queue is empty.      *)
C11_Stop ==
  [][/\ Returns("stop") =>
          (stopped_' /\ queue_' = queue_ /\ (stopped_ => stopped_' = stopped_))
     /\ stopped_ => stopped_'
     /\ (stopped_ /\ queue_ # <<>> /\
           (Returns("tryPop") \/ (qpc = "test" /\ qpc' = "idle"))) =>
          /\ metrics' = Head(queue_)
          /\ queue_' = Tail(queue_)
          /\ popped' = Append(popped, Head(queue_))]_vars

\* a second stop() has returned on a queue that still holds a snapshot
C11_Witness ==
  /\ last.op = "stop"
  /\ last.prevOp = "stop"
  /\ stopped_
  /\ queue_ # <<>>

(* C12: push can be done in every queue state, whatever the consumer does, *)
(* and appends the snapshot at the tail: the queue grows by one, earlier   *)
(* elements and the stopped flag stay; and a consumer blocked in           *)
(* waitAndPop when a push arrives eventually returns with a snapshot.      *)
C12_Push ==
  /\ [](ncalls < MaxCalls => ENABLED (\E d \in QueueInputs : QPush(d)))
  /\ [][Returns("push") =>
          /\ Len(queue_') = Len(queue_) + 1
          /\ SubSeq(queue_', 1, Len(queue_)) = queue_
          /\ queue_'[Len(queue_')] = pushed'[Len(pushed')]
          /\ stopped_' = stopped_
          /\ popped' = popped]_vars
  /\ (qpc = "sleep" /\ queue_ # <<>>) ~>
       (qpc = "idle" /\ last.op = "waitAndPop" /\ last.res = "item")

\* a push has just returned while the consumer sleeps in cond_var_.wait
C12_Witness ==
  /\ qpc = "sleep"
  /\ last.op = "push"
  /\ Len(queue_) = 1
  /\ notified

(* C13: tryPop returns in one step in every queue state; on a non-empty    *)
(* queue it returns true, hands out exactly the head and leaves the rest   *)
(* in order; on an empty queue it returns false and leaves the queue, the  *)
(* stopped flag and the caller's output unchanged, stopped or not.         *)
C13_TryPop ==
  /\ []((ncalls < MaxCalls /\ qpc = "idle") => ENABLED QTryPop)
  /\ [][Returns("tryPop") =>
          IF queue_ # <<>>
          THEN /\ last'.res = "true"
               /\ metrics' = Head(queue_)
               /\ queue_' = Tail(queue_)
               /\ stopped_' = stopped_
          ELSE /\ last'.res = "false"
               /\ queue_' = queue_
               /\ stopped_' = stopped_
               /\ metrics' = metrics]_vars

\* tryPop has returned false on a stopped, empty queue; the output still
\* holds what an earlier pop put there
C13_Witness ==
  /\ last.op = "tryPop"
  /\ last.res = "false"
  /\ stopped_
  /\ metrics # NoSnapshot

\* a sum of ints as carry * 2^32 + low, low in the range of int
WideAdd(w, d) ==
  IF d > 0 /\ w.low > IntMax - d
  THEN [carry |-> w.carry + 1, low |-> (w.low - IntMax - 1) + (d - IntMax - 1)]
  ELSE IF d < 0 /\ w.low < IntMin - d
  THEN [carry |-> w.carry - 1, low |-> (w.low + IntMax + 1) + (d + IntMax + 1)]
  ELSE [carry |-> w.carry, low |-> w.low + d]

RECURSIVE WideSum(_)
WideSum(ds) ==
  IF ds = <<>> THEN [carry |-> 0, low |-> 0]
  ELSE WideAdd(WideSum(SubSeq(ds, 1, Len(ds) - 1)), ds[Len(ds)])

(* C14: the value of a Counter is the sum of all deltas passed to          *)
(* increment since construction or the last reset (0 after reset), and a   *)
(* call on one metric never changes the value of another.                  *)
C14_CounterSum ==
  [][/\ \A o \in Pool :
          Kind(o) = "Counter" =>
            WideSum(hist'[o]) = [carry |-> 0, low |-> value'[o]]
     /\ \A o \in Pool : value'[o] # value[o] => last'.of = o]_vars

\* what getValueAsString of a Gauge shows for a value in thousandths
\* (tests/metrics_tests.cpp: 42.57 -> "42.57", reset -> "0.00")
ShownFixed(v) ==
  CASE v = 0 -> "0.00"
    [] v = 42570 -> "42.57"
    [] v = 123456 -> "123.46"
    [] v = -4 -> "-0.00"

\* the argument of the last update since construction or reset; 0 if none
LastWrite(h) == IF h = <<>> THEN 0 ELSE h[Len(h)]

(* C15: a Gauge shows the value of its last update, with exactly two       *)
(* fractional digits, whatever was written before; after reset (or with    *)
(* no update) it shows "0.00".                                             *)
C15_GaugeLastWrite ==
  [][\A o \in Pool :
       (Kind(o) = "Gauge" /\ Returns("getValueAsString") /\ last'.of = o) =>
          last'.res = ShownFixed(LastWrite(hist[o]))]_vars

\* read after two different updates
C15_Witness ==
  /\ last.op = "getValueAsString"
  /\ last.of = "g1"
  /\ last.res = "-0.00"
  /\ Len(hist["g1"]) = 2
  /\ hist["g1"][1] = 123456

(* C16: reset() brings a Counter or a Gauge to its zero value from any     *)
(* value, and a reset() right after a reset() of the same metric changes   *)
(* nothing.                                                                *)
C16_ResetIdempotent ==
  [][\A o \in Pool :
       (Returns("reset") /\ last'.of = o) =>
          /\ getValueAsString(o, value'[o]) = ZeroText(o)
          /\ (last.op = "reset" /\ last.of = o) =>
                (value' = value /\ hist' = hist)]_vars

\* the second of two resets in a row has returned, after an earlier call
C16_Witness ==
  /\ last.op = "reset"
  /\ last.prevOp = "reset"
  /\ last.prevOf = last.of
  /\ ncalls >= 3

\* list m holds object o
Holds(m, o) == \E i \in 1..Len(m) : m[i] = o

\* what holds of the collector list and of a finished pass
C17_State ==
  /\ Len(metrics_) = nadd
  /\ \A t \in Collectors :
       cpc[t] = "push" =>
         /\ Len(snapshot[t]) = Len(startList[t])
         /\ \A i \in 1..Len(startList[t]) :
              snapshot[t][i][1] = getName(startList[t][i])
         /\ IsPrefix(startList[t], metrics_)
         /\ quiet[t] =>
              \A o \in Pool :
                value[o] = IF Holds(startList[t], o) THEN 0 ELSE pre[t][o]

(* C17: every addMetric call appends its metric (no registration lost, no  *)
(* duplicate refused); the list only grows at its end; a snapshot has one  *)
(* entry for each metric registered before the pass took the collector     *)
(* lock, in order, and without other mutators the pass has reset exactly   *)
(* those metrics and left the others alone.                                *)
C17_AddMetric ==
  [][/\ C17_State'
     /\ IsPrefix(metrics_, metrics_')
     /\ nadd' # nadd => Len(metrics_') = Len(metrics_) + 1]_vars

\* the same object was registered twice, the second time while a
\* collectAndWrite call that has finished its pass is still in progress
C17_Witness ==
  \E t \in Collectors :
    /\ cpc[t] = "push"
    /\ Len(startList[t]) = 1
    /\ Len(metrics_) = 2
    /\ metrics_[1] = metrics_[2]

(* C18: the sink and the stream buffer change only in a step of the        *)
(* background thread; the sink only grows at its end; collectAndWrite      *)
(* returns with the sink untouched.                                        *)
C18_NoProducerIO ==
  [][/\ (sink' # sink \/ file' # file) =>
          (wpc \in {"write", "flush"} /\ cpc' = cpc /\ ownerPc' = ownerPc
             /\ pushed' = pushed)
     /\ IsPrefix(sink, sink')
     /\ pushed' # pushed => (sink' = sink /\ file' = file)]_vars

\* a second collectAndWrite has returned while its snapshot is still queued
\* and the line of the first is in the sink
C18_Witness ==
  /\ Len(sink) = 1
  /\ Len(pushed) = 2
  /\ Len(queue_) = 1
  /\ \A t \in Collectors : cpc[t] = "idle"

(* C19: the writer thread leaves its loop only when the queue is stopped   *)
(* and empty.                                                              *)
C19_ExitOnlyOnShutdown ==
  [][(wpc = "loop" /\ wpc' = "done") => (stopped_ /\ queue_ = <<>>)]_vars

(* C20: the background thread flushes each line before it dequeues the     *)
(* next snapshot: at most one line, the one being written, is in the       *)
(* stream buffer, nothing is dequeued while a line is there, and the flush *)
(* puts it at the end of the sink.                                         *)
C20_FlushEveryLine ==
  [][/\ Len(file') <= 1
     /\ file' # <<>> => (wpc' = "flush" /\ file'[1].id = metrics'.id)
     /\ popped' # popped => file = <<>>
     /\ (wpc = "flush" /\ wpc' # "flush") =>
          (sink' = sink \o file /\ file' = <<>>)]_vars

\* the second line is written but not flushed; the first is in the sink
C20_Witness ==
  /\ wpc = "flush"
  /\ Len(file) = 1
  /\ Len(sink) = 1

\* the snapshot the writer thread has in its local `metrics`, if any
Held == IF metrics.id # 0 THEN <<metrics.id>> ELSE <<>>

(* C21: writer conservation.  In every reachable state the snapshots       *)
(* passed to write() are, in order, those whose lines are in the sink,     *)
(* then the one the background thread holds (if any), then those in the    *)
(* queue: nothing the thread dequeues is dropped.                          *)
C21_WriterConservation ==
  Ids(pushed) = Ids(sink) \o Held \o Ids(queue_)

\* ranks, in the order in which the calls took the collector lock, of the
\* snapshots behind a sequence of lines or queue elements
Ranks(lines) == [i \in 1..Len(lines) |-> order[lines[i].id]]

(* C22 as stated: the snapshot captured first under the collector lock is  *)
(* enqueued first, and the lines are in the sink in the order in which     *)
(* their snapshots were captured.                                          *)
C22_CaptureOrderAsStated ==
  /\ \A i, j \in 1..Len(order) : i < j => order[i] < order[j]
  /\ \A i, j \in 1..Len(sink) : i < j => Ranks(sink)[i] < Ranks(sink)[j]

(* C22 amended: the lines are in the sink in the order in which their      *)
(* snapshots were enqueued; a push overtakes a snapshot captured earlier   *)
(* only while the call that captured it, by another thread, is between the *)
(* release of the collector lock and its own push; every call that has     *)
(* taken the collector lock has pushed or is still in progress.            *)
C22_CaptureOrder ==
  [][/\ \A i, j \in 1..Len(sink') : i < j => sink'[i].id < sink'[j].id
     /\ \A t \in Collectors :
          (cpc[t] = "push" /\ cpc'[t] = "idle") =>
             /\ order' = Append(order, capture[t])
             /\ \A k \in 1..(capture[t] - 1) :
                  \/ \E i \in 1..Len(order) : order[i] = k
                  \/ \E u \in Collectors \ {t} :
                       capture[u] = k /\ cpc[u] = "push"
     /\ \A k \in 1..ncollect' :
          \/ \E i \in 1..Len(order') : order'[i] = k
          \/ \E t \in Collectors : capture'[t] = k /\ cpc'[t] # "idle"]_vars

\* two lines in the sink, the first from the call that captured second
C22_Witness ==
  /\ Len(sink) = 2
  /\ Ranks(sink)[1] > Ranks(sink)[2]

\* the mutexes thread th holds
HeldBy(th) ==
  (IF cmutex = th THEN {"collector"} ELSE {})
    \cup {o \in Pool : mmutex[o] = th}
    \cup (IF qmutex = th THEN {"queue"} ELSE {})

\* collector lock, then one metric lock at a time; the queue lock alone
LockOrder ==
  \A th \in LockThreads :
    /\ qmutex = th => HeldBy(th) = {"queue"}
    /\ \A o, p \in Pool : (mmutex[o] = th /\ mmutex[p] = th) => o = p
    /\ cmutex = th => th \in Collectors \cup {"adder"}

\* a call on a metric or on the collector is in progress
Busy == \E th \in Pool \cup {"adder"} \cup Collectors : lpc[th] # "idle"

(* C23: deadlock freedom.  The locks are taken in the order collector      *)
(* lock, then one metric lock at a time, the queue lock never together     *)
(* with another; the calls of the drivers, of addMetric and of             *)
(* collectAndWrite all return; the destructor, once begun, returns; the    *)
(* writer thread stays for ever only asleep in waitAndPop, and there only  *)
(* while the queue is empty and not stopped.                               *)
C23_DeadlockFree ==
  /\ [](LockOrder)
  /\ [][\A th \in LockThreads :
          /\ (cmutex' = th /\ cmutex # th) => HeldBy(th) = {}
          /\ (qmutex' = th /\ qmutex # th) => HeldBy(th) = {}
          /\ \A o \in Pool :
               (mmutex'[o] = th /\ mmutex[o] # th) =>
                  HeldBy(th) \subseteq {"collector"}]_vars
  /\ Busy ~> ~Busy
  /\ (lpc["owner"] \in {"want", "stopping", "join"}) ~>
       (lpc["owner"] = "destroyed")
  /\ (lpc["writer"] \in {"loop", "wait", "test", "check", "trywant",
                         "trying", "io"}) ~>
       (lpc["writer"] \in {"sleep", "done"})
  /\ (lpc["writer"] = "sleep" /\ (queue_ # <<>> \/ stopped_)) ~>
       (lpc["writer"] # "sleep")

\* a driver waits for the metric lock held by a collecting thread, which
\* also holds the collector lock, while the writer thread sleeps in
\* waitAndPop
C23_Witness ==
  \E t \in Collectors, o \in Pool :
    /\ mmutex[o] = t
    /\ cmutex = t
    /\ lpc[o] = "want"
    /\ lpc["writer"] = "sleep"
====
